---------------------------- MODULE Spec2Model ----------------------------
(***************************************************************************)
(* Model of the PD prototype server: server/quality_gates.py (single-frame *)
(* gates) and server/main.py (ready-check, measure, usage endpoints).      *)
(*                                                                         *)
(* Units.  The code works on floats; the model uses exact integers:        *)
(*   - frame metrics (sharpness, clip percentage) in tenths: 80.0 is 800;  *)
(*   - medians in twentieths (twice a tenth), so that the mean of the two  *)
(*     middle values of an even-sized list stays an integer;               *)
(*   - scores in thousandths, the precision round(x, 3) leaves: 0.75 is    *)
(*     750;                                                                *)
(*   - round(x, 3) rounds the double x: where the exact value lies halfway *)
(*     between two thousandths, the representation error of the double     *)
(*     decides, so either thousandth is possible there, and the same       *)
(*     operands always give the same one (fp_ties);                        *)
(*   - time() in units of 1.25 s, half the cooldown: 2.5 s is 2.          *)
(* A frame is represented by the two metrics the extractor computes from   *)
(* it, or is marked as not decodable (Image.open raises).                  *)
(***************************************************************************)
EXTENDS Integers, Sequences, FiniteSets, TLC

VARIABLES
    USAGE_COUNTER,   \* main.py:86   USAGE_COUNTER["measure_calls"]
    RECENT_TOKENS,   \* main.py:87   token -> last used timestamp
    clock,           \* what time() returns
    pc,              \* per measure handler: "idle", "reading", "done", "failed"
    server_token,    \* per measure handler: the server_token form field
    now,             \* per measure handler: local now (main.py:111)
    frames,          \* per measure handler: the uploaded burst
    nread,           \* per measure handler: frames read so far by the for loop
    blur_vals,       \* per measure handler: local blur_vals (main.py:129)
    clip_vals,       \* per measure handler: local clip_vals (main.py:130)
    resp,            \* per measure handler: the MeasureResponse returned
    usage_resp,      \* last value returned by GET /admin/usage
    rc_resp,         \* last ReadyCheckResponse returned
    fp_ties          \* how round() came out on each tied operand met so far

vars == <<USAGE_COUNTER, RECENT_TOKENS, clock, pc, server_token, now, frames,
          nread, blur_vals, clip_vals, resp, usage_resp, rc_resp, fp_ties>>

measure_vars == <<pc, server_token, now, frames, nread, blur_vals, clip_vals, resp>>

-----------------------------------------------------------------------------
(* Bounds of the model *)

MaxFrames == 5      \* longest burst of the sequential burst specification
MaxCalls == 3       \* measure calls per behaviour
Horizon == 2        \* clock ticks per behaviour

(* Program constants, in the units above *)

GATE_SHARPNESS_MIN == 800    \* blur < 80.0 fails
GATE_CLIP_MAX == 80          \* clip >= 8.0 fails
SANITY_BLUR_MIN == 50        \* b < 5.0 dropped
SANITY_CLIP_MAX == 500       \* c > 50.0 dropped
MIN_FRAMES == 3              \* frames_used < 3 -> low-quality burst
BLUR_ZERO_AT == 400          \* b <= 40.0 -> 0.0
BLUR_FULL_AT == 1600         \* b >= 160.0 -> 1.0
CLIP_FULL_AT == 40           \* c <= 4.0 -> 1.0
CLIP_ZERO_AT == 160          \* c >= 16.0 -> 0.0
WEIGHT_BLUR == 7             \* 0.7, in tenths
WEIGHT_CLIP == 3             \* 0.3, in tenths
BAND_OK == 750               \* score >= 0.75
BAND_BORDERLINE == 550       \* score >= 0.55
TOKEN_COOLDOWN_SEC == 2      \* 2.5 s, in units of 1.25 s

(* time() is seconds since the epoch: far more than the cooldown. *)
StartTime == 2 * TOKEN_COOLDOWN_SEC

Handlers == {1, 2}

None == "<None>"
TokenStrings == {"", "tokA", "tokB"}
Tokens == TokenStrings \cup {None}

(* Strings of the code; the typographic characters are written in ASCII. *)
GUIDANCE_WAITING == "Hold still... capturing soon"
GUIDANCE_BLUR == "Hold still--image is a bit blurry"
GUIDANCE_LIGHT == "Face a light source (avoid a bright window behind you)"
GUIDANCE_READY == "Hold still... capturing"
MSG_RAPID == "Too-rapid repeat; please hold still briefly."
MSG_LOW_BURST == "Low-quality burst -- retake"
MSG_OK == "OK"
MSG_BORDERLINE == "Borderline -- consider retaking"
MSG_LOW == "Low quality -- retake"

-----------------------------------------------------------------------------
(* Frames *)

Frame(b, c) == [decodes |-> TRUE, b |-> b, c |-> c]
CorruptFrame == [decodes |-> FALSE, b |-> 0, c |-> 0]

calc_blur_laplacian_var(f) == f.b
calc_hist_clip_pct(f) == f.c


-----------------------------------------------------------------------------
(* quality_gates.evaluate_basic_gates, on the two metrics of the frame *)

(* Variant: the sharpness threshold taken as exclusive *)
GateSharpnessFailsInclusive(blur) == blur <= GATE_SHARPNESS_MIN

GateSharpnessFails(blur) == blur < GATE_SHARPNESS_MIN
GateLightingFails(clip) == clip >= GATE_CLIP_MAX

(* Variant: the lighting gate evaluated first, so the blur hint is written
   last *)
evaluate_basic_gates_blur_last(f) ==
    LET blur == calc_blur_laplacian_var(f)
        clip == calc_hist_clip_pct(f)
        failing1 == IF GateSharpnessFails(blur) THEN <<"sharpness">> ELSE << >>
        failing2 == IF GateLightingFails(clip) THEN Append(failing1, "lighting") ELSE failing1
        guidance1 == IF GateLightingFails(clip) THEN GUIDANCE_LIGHT ELSE GUIDANCE_WAITING
        guidance2 == IF GateSharpnessFails(blur) THEN GUIDANCE_BLUR ELSE guidance1
        ready == Len(failing2) = 0
    IN  [ready |-> ready, failing_gates |-> failing2,
         guidance |-> IF ready THEN GUIDANCE_READY ELSE guidance2,
         metrics |-> [blur_laplacian_var |-> blur, lighting_clip_pct |-> clip]]

evaluate_basic_gates(f) ==
    LET blur == calc_blur_laplacian_var(f)
        clip == calc_hist_clip_pct(f)
        failing0 == << >>
        guidance0 == GUIDANCE_WAITING
        failing1 == IF GateSharpnessFails(blur) THEN Append(failing0, "sharpness") ELSE failing0
        guidance1 == IF GateSharpnessFails(blur) THEN GUIDANCE_BLUR ELSE guidance0
        failing2 == IF GateLightingFails(clip) THEN Append(failing1, "lighting") ELSE failing1
        guidance2 == IF GateLightingFails(clip) THEN GUIDANCE_LIGHT ELSE guidance1
        ready == Len(failing2) = 0
        guidance3 == IF ready THEN GUIDANCE_READY ELSE guidance2
    IN  [ready |-> ready, failing_gates |-> failing2, guidance |-> guidance3,
         metrics |-> [blur_laplacian_var |-> blur, lighting_clip_pct |-> clip]]

-----------------------------------------------------------------------------
(* The scoring part of measure *)

(* sorted(data), by insertion *)
RECURSIVE Insert(_, _)
Insert(x, s) ==
    IF s = << >> THEN <<x>>
    ELSE IF x <= Head(s) THEN <<x>> \o s
    ELSE <<Head(s)>> \o Insert(x, Tail(s))

RECURSIVE Sorted(_)
Sorted(s) == IF s = << >> THEN << >> ELSE Insert(Head(s), Sorted(Tail(s)))

(* Variant: the upper middle value of an even-sized list (median_high) *)
median_high2(data) ==
    LET s == Sorted(data)
        n == Len(s)
    IN  2 * s[n \div 2 + 1]

(* statistics.median of a non-empty list, times two: the middle value, or the
   mean of the two middle values. *)
median2(data) ==
    LET s == Sorted(data)
        n == Len(s)
    IN  IF n % 2 = 1 THEN 2 * s[(n + 1) \div 2]
        ELSE s[n \div 2] + s[n \div 2 + 1]

(* Denominators of the two components: 2 * (160.0 - 40.0) and 2 * (16.0 - 4.0)
   in the units of median2. *)
BlurDen == 2 * (BLUR_FULL_AT - BLUR_ZERO_AT)
ClipDen == 2 * (CLIP_ZERO_AT - CLIP_FULL_AT)

(* score_component_blur(b), as a numerator over BlurDen; b2 is twice b *)
score_component_blur(b2) ==
    IF b2 >= 2 * BLUR_FULL_AT THEN BlurDen
    ELSE IF b2 <= 2 * BLUR_ZERO_AT THEN 0
    ELSE b2 - 2 * BLUR_ZERO_AT

(* score_component_clip(c), as a numerator over ClipDen; c2 is twice c *)
score_component_clip(c2) ==
    IF c2 <= 2 * CLIP_FULL_AT THEN ClipDen
    ELSE IF c2 >= 2 * CLIP_ZERO_AT THEN 0
    ELSE ClipDen - (c2 - 2 * CLIP_FULL_AT)

(* The two middle values of sorted(data), the same value twice when the
   length is odd: what statistics.median computes the median from *)
Middle(data) ==
    LET s == Sorted(data)
        n == Len(s)
    IN  IF n % 2 = 1 THEN <<s[(n + 1) \div 2], s[(n + 1) \div 2]>>
        ELSE <<s[n \div 2], s[n \div 2 + 1]>>

(* 0.7 * s_blur + 0.3 * s_clip in thousandths, as the fraction
   CombinedNum / CombinedDen *)
CombinedNum(s_blur, s_clip) ==
    100 * (WEIGHT_BLUR * s_blur * ClipDen + WEIGHT_CLIP * s_clip * BlurDen)
CombinedDen == BlurDen * ClipDen

(* The exact value n / d lies halfway between two thousandths *)
Tied(n, d) == 2 * (n % d) = d

(* What round(x, 3) can return for a double x of exact value n / d
   thousandths: the nearest thousandth, and either neighbour when the exact
   value is tied, since x then lies on one side or the other of the tie. *)
Round3Outcomes(n, d) ==
    LET q == n \div d
        r == n % d
    IN  IF 2 * r < d THEN {q}
        ELSE IF 2 * r > d THEN {q + 1}
        ELSE {q, q + 1}

(* The exact value of 0.7 * s_blur + 0.3 * s_clip for the medians of the two
   lists, over CombinedDen *)
ScoreNum(bvals, cvals) ==
    LET med_blur == median2(bvals)
        med_clip == median2(cvals)
        s_blur == score_component_blur(med_blur)
        s_clip == score_component_clip(med_clip)
    IN  CombinedNum(s_blur, s_clip)

(* The floats the rounded double is computed from *)
ScoreOperands(bvals, cvals) == <<Middle(bvals), Middle(cvals)>>

(* The scores measure can return for the two lists: one value, except for
   tied operands met for the first time. *)
Scores(bvals, cvals) ==
    IF Len(bvals) < MIN_FRAMES THEN {0}
    ELSE IF ScoreOperands(bvals, cvals) \in DOMAIN fp_ties
         THEN {fp_ties[ScoreOperands(bvals, cvals)]}
         ELSE Round3Outcomes(ScoreNum(bvals, cvals), CombinedDen)

(* fp_ties once the two lists were scored with score *)
Remember(bvals, cvals, score) ==
    IF Len(bvals) >= MIN_FRAMES /\ Tied(ScoreNum(bvals, cvals), CombinedDen)
    THEN [k \in DOMAIN fp_ties \cup {ScoreOperands(bvals, cvals)} |->
             IF k = ScoreOperands(bvals, cvals) THEN score ELSE fp_ties[k]]
    ELSE fp_ties

(* Variant: the band limits taken as exclusive *)
BandExclusive(score) ==
    IF score > BAND_OK THEN MSG_OK
    ELSE IF score > BAND_BORDERLINE THEN MSG_BORDERLINE
    ELSE MSG_LOW

Band(score) ==
    IF score >= BAND_OK THEN MSG_OK
    ELSE IF score >= BAND_BORDERLINE THEN MSG_BORDERLINE
    ELSE MSG_LOW

(* Variant: a frame dropped only when both metrics are out of range *)
DroppedBoth(b, c) == b < SANITY_BLUR_MIN /\ c > SANITY_CLIP_MAX

(* The sanity filter of the frame loop *)
Dropped(b, c) == b < SANITY_BLUR_MIN \/ c > SANITY_CLIP_MAX

MeasureResponse(ok, score, frames_used, bvals, cvals, message) ==
    [ok |-> ok, distance_pd_mm |-> None, near_pd_mm |-> None, score |-> score,
     frames_used |-> frames_used,
     diagnostics |-> [blur |-> bvals, clip_pct |-> cvals],
     message |-> message]

CooldownResponse == MeasureResponse(FALSE, 0, 0, << >>, << >>, MSG_RAPID)

(* Variant: a burst of exactly MIN_FRAMES survivors taken as too small *)
BurstResponseAtMost(bvals, cvals, score) ==
    LET frames_used == Len(bvals)
    IN  IF frames_used <= MIN_FRAMES
        THEN MeasureResponse(FALSE, 0, frames_used, bvals, cvals, MSG_LOW_BURST)
        ELSE MeasureResponse(TRUE, score, frames_used, bvals, cvals, Band(score))

(* What measure returns once the frame loop has ended, score being what
   round() returned when there are enough frames to score *)
BurstResponse(bvals, cvals, score) ==
    LET frames_used == Len(bvals)
    IN  IF frames_used < MIN_FRAMES
        THEN MeasureResponse(FALSE, 0, frames_used, bvals, cvals, MSG_LOW_BURST)
        ELSE MeasureResponse(TRUE, score, frames_used, bvals, cvals, Band(score))

-----------------------------------------------------------------------------
(* State *)

NoResponse == MeasureResponse(FALSE, 0, 0, << >>, << >>, None)

NoReadyCheck ==
    [ready |-> FALSE, failing_gates |-> << >>, guidance |-> None, action |-> None,
     server_token |-> None,
     diagnostics |-> [blur_laplacian_var |-> 0, lighting_clip_pct |-> 0]]

Init ==
    /\ USAGE_COUNTER = 0
    /\ RECENT_TOKENS = [t \in {} |-> 0]
    /\ clock = StartTime
    /\ pc = [h \in Handlers |-> "idle"]
    /\ server_token = [h \in Handlers |-> None]
    /\ now = [h \in Handlers |-> StartTime]
    /\ frames = [h \in Handlers |-> << >>]
    /\ nread = [h \in Handlers |-> 0]
    /\ blur_vals = [h \in Handlers |-> << >>]
    /\ clip_vals = [h \in Handlers |-> << >>]
    /\ resp = [h \in Handlers |-> NoResponse]
    /\ usage_resp = 0
    /\ rc_resp = NoReadyCheck
    /\ fp_ties = [k \in {} |-> 0]

-----------------------------------------------------------------------------
(* POST /v1/measurements/ready-check *)

ready_check(f, token) ==
    /\ f.decodes
    /\ LET g == evaluate_basic_gates(f)
       IN  rc_resp' = [ready |-> g.ready, failing_gates |-> g.failing_gates,
                       guidance |-> g.guidance, action |-> None,
                       server_token |-> token, diagnostics |-> g.metrics]
    /\ UNCHANGED <<USAGE_COUNTER, RECENT_TOKENS, clock, measure_vars, usage_resp, fp_ties>>

-----------------------------------------------------------------------------
(* POST /v1/measurements/measure.  The handler is a coroutine on the event
   loop: it runs without interruption from one await to the next, and the
   only await is the f.read() of the frame loop. *)

(* Variant: if server_token is not None *)
NotNone(tok) == tok # None

(* if server_token: None and "" are both false *)
Truthy(tok) == tok # None /\ tok # ""

(* RECENT_TOKENS.get(server_token, 0.0) *)
LastUsed(tok) == IF tok \in DOMAIN RECENT_TOKENS THEN RECENT_TOKENS[tok] ELSE 0

(* now - last < TOKEN_COOLDOWN_SEC *)
TooRapid(t, last) == t - last < TOKEN_COOLDOWN_SEC

(* Variant: the timestamp is not written *)
RecordTokenNever(tok, t) == RECENT_TOKENS

(* RECENT_TOKENS[server_token] = now *)
RecordToken(tok, t) ==
    [k \in DOMAIN RECENT_TOKENS \cup {tok} |-> IF k = tok THEN t ELSE RECENT_TOKENS[k]]

(* Variant: = 1 in place of += 1 *)
CountCallReset(n) == 1

(* USAGE_COUNTER["measure_calls"] += 1 *)
CountCall(n) == n + 1

(* Variant: blur_vals and clip_vals at module level, shared by the handlers *)
SharedLocals(h) == 1

(* blur_vals and clip_vals are locals of the call: each handler has its own *)
Locals(h) == h

(* From the entry of the handler to its first await, or to its return when
   the call is rejected by the cooldown or carries no frame.  A handler slot
   keeps the token, the arrival time, the burst and the response of its last
   call until the next call enters it; the two lists of a rejected call,
   which the code never binds, are shown empty. *)
measure_begin(h, tok, burst) ==
    /\ pc[h] \in {"idle", "done", "failed"}
    /\ USAGE_COUNTER < MaxCalls
    /\ now' = [now EXCEPT ![h] = clock]
    /\ USAGE_COUNTER' = CountCall(USAGE_COUNTER)
    /\ server_token' = [server_token EXCEPT ![h] = tok]
    /\ frames' = [frames EXCEPT ![h] = burst]
    /\ nread' = [nread EXCEPT ![h] = 0]
    /\ blur_vals' = [blur_vals EXCEPT ![Locals(h)] = << >>]
    /\ clip_vals' = [clip_vals EXCEPT ![Locals(h)] = << >>]
    /\ IF Truthy(tok) /\ TooRapid(clock, LastUsed(tok))
       THEN /\ pc' = [pc EXCEPT ![h] = "done"]
            /\ resp' = [resp EXCEPT ![h] = CooldownResponse]
            /\ UNCHANGED RECENT_TOKENS
       ELSE /\ RECENT_TOKENS' = IF Truthy(tok) THEN RecordToken(tok, clock)
                                ELSE RECENT_TOKENS
            /\ IF burst = << >>
               THEN /\ pc' = [pc EXCEPT ![h] = "done"]
                    /\ resp' = [resp EXCEPT ![h] = BurstResponse(<< >>, << >>, 0)]
               ELSE /\ pc' = [pc EXCEPT ![h] = "reading"]
                    /\ resp' = [resp EXCEPT ![h] = NoResponse]
    /\ UNCHANGED <<clock, usage_resp, rc_resp, fp_ties>>

(* One turn of the frame loop, resumed after await f.read(): the frame is
   decoded, measured, filtered; after the last frame the handler runs on to
   its return. *)
measure_frame(h) ==
    /\ pc[h] = "reading"
    /\ LET f == frames[h][nread[h] + 1]
           b == calc_blur_laplacian_var(f)
           c == calc_hist_clip_pct(f)
           bvals == IF Dropped(b, c) THEN blur_vals[Locals(h)]
                    ELSE Append(blur_vals[Locals(h)], b)
           cvals == IF Dropped(b, c) THEN clip_vals[Locals(h)]
                    ELSE Append(clip_vals[Locals(h)], c)
       IN  /\ f.decodes
           /\ blur_vals' = [blur_vals EXCEPT ![Locals(h)] = bvals]
           /\ clip_vals' = [clip_vals EXCEPT ![Locals(h)] = cvals]
           /\ nread' = [nread EXCEPT ![h] = nread[h] + 1]
           /\ IF nread[h] + 1 = Len(frames[h])
              THEN \E score \in Scores(bvals, cvals) :
                       /\ pc' = [pc EXCEPT ![h] = "done"]
                       /\ resp' = [resp EXCEPT ![h] = BurstResponse(bvals, cvals, score)]
                       /\ fp_ties' = Remember(bvals, cvals, score)
              ELSE UNCHANGED <<pc, resp, fp_ties>>
    /\ UNCHANGED <<USAGE_COUNTER, RECENT_TOKENS, clock, server_token, now, frames,
                   usage_resp, rc_resp>>

(* Image.open raises on bytes that are no image: the handler ends with the
   exception and returns no MeasureResponse. *)
measure_decode_error(h) ==
    /\ pc[h] = "reading"
    /\ ~frames[h][nread[h] + 1].decodes
    /\ pc' = [pc EXCEPT ![h] = "failed"]
    /\ UNCHANGED <<USAGE_COUNTER, RECENT_TOKENS, clock, server_token, now, frames,
                   nread, blur_vals, clip_vals, resp, usage_resp, rc_resp, fp_ties>>

-----------------------------------------------------------------------------
(* GET /admin/usage *)

usage ==
    /\ usage_resp' = USAGE_COUNTER
    /\ UNCHANGED <<USAGE_COUNTER, RECENT_TOKENS, clock, measure_vars, rc_resp, fp_ties>>

(* Time passes *)
Tick ==
    /\ clock < StartTime + Horizon
    /\ clock' = clock + 1
    /\ UNCHANGED <<USAGE_COUNTER, RECENT_TOKENS, measure_vars, usage_resp, rc_resp, fp_ties>>

-----------------------------------------------------------------------------
(* Inputs *)

(* Frames of the concurrent specification *)
SharpFrame == Frame(1171, 40)
BlurryFrame == Frame(49, 20)
(* 0.7 * (43.2 / 120) + 0.3 * (1 - 0.1 / 12) = 0.5495 exactly: a tie *)
TiedFrame == Frame(832, 41)

RECURSIVE Repeat(_, _)
Repeat(f, n) == IF n = 0 THEN << >> ELSE Append(Repeat(f, n - 1), f)

(* Bursts of the specification of repeated calls: five identical valid
   frames, of a plain and of a tied score *)
RepeatBursts == { Repeat(SharpFrame, 5), Repeat(TiedFrame, 5) }

ConcBursts ==
    { << >>,
      Repeat(SharpFrame, 5),
      <<BlurryFrame, CorruptFrame>> }

(* Frames of the sequential burst specification: both sides of the sanity
   filter, the ends of the two curves, both sides of the two band limits,
   and a frame whose score is tied between two thousandths. *)
BurstFrames ==
    { Frame(49, 20), Frame(1000, 501), Frame(50, 500), Frame(1600, 40),
      Frame(1171, 40), Frame(1169, 40), Frame(1000, 80), TiedFrame }

Bursts == UNION { [1..n -> BurstFrames] : n \in 0..MaxFrames }

(* Metrics of the gate specification: both sides of the two thresholds *)
GateBlurs == {0, 49, 50, 790, 799, 800, 801, 900, 1600, 2500}
GateClips == {0, 10, 20, 79, 80, 81, 90, 500, 501, 1000}

-----------------------------------------------------------------------------
(* Specifications *)

(* Concurrent measure handlers and the clock *)
Next ==
    \/ \E h \in Handlers, tok \in Tokens, burst \in ConcBursts : measure_begin(h, tok, burst)
    \/ \E h \in Handlers : measure_frame(h)
    \/ \E h \in Handlers : measure_decode_error(h)
    \/ Tick

Spec == Init /\ [][Next]_vars

(* Concurrent measure handlers given bursts of five identical frames *)
RepeatNext ==
    \/ \E h \in Handlers, tok \in {None, "tokA"}, burst \in RepeatBursts :
          measure_begin(h, tok, burst)
    \/ \E h \in Handlers : measure_frame(h)
    \/ Tick

SpecRepeat == Init /\ [][RepeatNext]_vars

(* Concurrent measure handlers, the clock and the usage endpoint *)
UsageNext ==
    \/ \E h \in Handlers, tok \in {None, "tokA"}, burst \in ConcBursts :
          measure_begin(h, tok, burst)
    \/ \E h \in Handlers : measure_frame(h)
    \/ \E h \in Handlers : measure_decode_error(h)
    \/ usage
    \/ Tick

SpecUsage == Init /\ [][UsageNext]_vars

(* One measure call without token, over every burst of BurstFrames *)
BurstNext ==
    \/ USAGE_COUNTER = 0 /\ \E burst \in Bursts : measure_begin(1, None, burst)
    \/ measure_frame(1)

SpecBurst == Init /\ [][BurstNext]_vars

(* Ready-checks over the gate metrics *)
GatesNext ==
    \E b \in GateBlurs, c \in GateClips, token \in {"tokA", "tokB"} :
        ready_check(Frame(b, c), token)

SpecGates == Init /\ [][GatesNext]_vars

-----------------------------------------------------------------------------
(* Properties of the single-frame gates, under SpecGates *)

Checked == rc_resp # NoReadyCheck
GateBlur == rc_resp.diagnostics.blur_laplacian_var
GateClip == rc_resp.diagnostics.lighting_clip_pct

(* C1: the failing-gate list holds "sharpness" exactly when sharpness < 80.0
   and "lighting" exactly when clip >= 8.0, sharpness first, and ready is
   true iff the list is empty, i.e. iff sharpness >= 80.0 and clip < 8.0. *)
C1_Gates ==
    Checked =>
        /\ rc_resp.failing_gates =
              (IF GateBlur < 800 THEN <<"sharpness">> ELSE << >>)
              \o (IF GateClip >= 80 THEN <<"lighting">> ELSE << >>)
        /\ rc_resp.ready <=> (rc_resp.failing_gates = << >>)
        /\ rc_resp.ready <=> (GateBlur >= 800 /\ GateClip < 80)

(* Both boundary values at once: sharpness 80.0 passes, clip 8.0 fails. *)
C1_Witness ==
    /\ Checked
    /\ GateBlur = 800
    /\ GateClip = 80
    /\ rc_resp.failing_gates = <<"lighting">>
    /\ ~rc_resp.ready

(* C2: the guidance is the lighting hint whenever the lighting gate fails
   (also when the sharpness gate fails too), the blur hint when only the
   sharpness gate fails, and the capturing message exactly when ready. *)
C2_Guidance ==
    Checked =>
        /\ rc_resp.guidance =
              IF GateClip >= 80 THEN GUIDANCE_LIGHT
              ELSE IF GateBlur < 800 THEN GUIDANCE_BLUR
              ELSE GUIDANCE_READY
        /\ (rc_resp.guidance = GUIDANCE_READY) <=> rc_resp.ready
        /\ rc_resp.failing_gates = <<"sharpness", "lighting">>
              => rc_resp.guidance # GUIDANCE_BLUR

(* Both gates fail and the lighting hint is the one returned. *)
C2_Witness ==
    /\ Checked
    /\ rc_resp.failing_gates = <<"sharpness", "lighting">>
    /\ rc_resp.guidance = GUIDANCE_LIGHT

-----------------------------------------------------------------------------
(* Properties of the burst scoring, under SpecBurst *)

(* The frames of a burst with sharpness >= 5.0 and clip <= 50.0, in order *)
Kept(f) == f.b >= 50 /\ f.c <= 500
Survivors(burst) == SelectSeq(burst, Kept)
BlurOf(fs) == [i \in 1..Len(fs) |-> fs[i].b]
ClipOf(fs) == [i \in 1..Len(fs) |-> fs[i].c]

(* C3: the diagnostics hold exactly the metrics of the frames with
   sharpness >= 5.0 and clip <= 50.0, in submission order and index-aligned,
   and frames_used is their number; this holds of the two lists after every
   frame of the loop as well. *)
C3_Diagnostics ==
    /\ pc[1] \in {"reading", "done"} =>
          LET seen == Survivors(SubSeq(frames[1], 1, nread[1]))
          IN  /\ blur_vals[1] = BlurOf(seen)
              /\ clip_vals[1] = ClipOf(seen)
    /\ pc[1] = "done" =>
          LET kept == Survivors(frames[1])
          IN  /\ resp[1].diagnostics.blur = BlurOf(kept)
              /\ resp[1].diagnostics.clip_pct = ClipOf(kept)
              /\ Len(resp[1].diagnostics.blur) = Len(resp[1].diagnostics.clip_pct)
              /\ resp[1].frames_used = Len(kept)

(* A burst with a frame dropped for its sharpness, one dropped for its clip
   and one kept at both limits of the filter. *)
C3_Witness ==
    /\ pc[1] = "done"
    /\ frames[1] = <<Frame(49, 20), Frame(50, 500), Frame(1000, 501),
                     Frame(1600, 40), Frame(1171, 40)>>
    /\ resp[1].diagnostics.blur = <<50, 1600, 1171>>
    /\ resp[1].diagnostics.clip_pct = <<500, 40, 40>>
    /\ resp[1].frames_used = 3

(* C4: with fewer than 3 surviving frames measure returns ok=false, score
   0.0, the low-quality-burst message, frames_used = number of survivors and
   the surviving values; with 3 or more it returns ok=true; the handler
   returns a response and raises nothing. *)
C4_LowQualityBurst ==
    /\ pc[1] # "failed"
    /\ pc[1] = "done" =>
          LET kept == Survivors(frames[1])
          IN  IF Len(kept) < 3
              THEN /\ resp[1].ok = FALSE
                   /\ resp[1].score = 0
                   /\ resp[1].message = MSG_LOW_BURST
                   /\ resp[1].frames_used = Len(kept)
                   /\ resp[1].diagnostics = [blur |-> BlurOf(kept), clip_pct |-> ClipOf(kept)]
              ELSE resp[1].ok = TRUE

(* Five frames, three of them dropped for their sharpness: two survivors. *)
C4_Witness ==
    /\ pc[1] = "done"
    /\ frames[1] = <<Frame(49, 20), Frame(1600, 40), Frame(49, 20),
                     Frame(1171, 40), Frame(49, 20)>>
    /\ resp[1].ok = FALSE
    /\ resp[1].score = 0
    /\ resp[1].frames_used = 2
    /\ resp[1].message = MSG_LOW_BURST

(* The k-th smallest value of a list, without sorting it *)
Kth(vals, k) ==
    CHOOSE v \in {vals[i] : i \in DOMAIN vals} :
        /\ Cardinality({i \in DOMAIN vals : vals[i] < v}) < k
        /\ Cardinality({i \in DOMAIN vals : vals[i] <= v}) >= k

(* Twice the median: the middle value, or the mean of the two middle ones *)
TwiceMedian(vals) ==
    LET n == Len(vals)
    IN  IF n % 2 = 1 THEN 2 * Kth(vals, (n + 1) \div 2)
        ELSE Kth(vals, n \div 2) + Kth(vals, n \div 2 + 1)

(* S and C of the claim on medians in twentieths: S as a multiple of 1/2400,
   C as a multiple of 1/240. *)
CurveS(m2) == IF m2 <= 800 THEN 0 ELSE IF m2 >= 3200 THEN 2400 ELSE m2 - 800
CurveC(m2) == IF m2 <= 80 THEN 240 ELSE IF m2 >= 320 THEN 0 ELSE 240 - (m2 - 80)

(* 1000 * (0.7 * S + 0.3 * C) = (7 * s + 30 * c) / 24 *)
ExactTimes24(fs) ==
    7 * CurveS(TwiceMedian(BlurOf(fs))) + 30 * CurveC(TwiceMedian(ClipOf(fs)))

(* C6: with at least 3 survivors the score is 0.7 * S(m_b) + 0.3 * C(m_c)
   rounded to the nearest thousandth, m_b and m_c the medians of the
   surviving values, and lies in [0, 1]. *)
C6_Score ==
    (pc[1] = "done" /\ Len(Survivors(frames[1])) >= 3) =>
        LET x24 == ExactTimes24(Survivors(frames[1]))
            d == 24 * resp[1].score - x24
        IN  /\ resp[1].ok
            /\ -12 <= d /\ d <= 12
            /\ 0 <= resp[1].score /\ resp[1].score <= 1000

(* Four survivors: the medians are means of two values, 100.0 and 6.05, so
   S = 0.5, C = 199/240 and the score is 0.35 + 0.24875 = 0.59875, rounded
   to 0.599. *)
C6_Witness ==
    /\ pc[1] = "done"
    /\ frames[1] = <<Frame(1000, 80), Frame(1600, 40), Frame(1000, 80), Frame(832, 41)>>
    /\ resp[1].ok
    /\ resp[1].score = 599

(* C7: the message of an ok response is decided by the score alone: "OK" iff
   score >= 0.75, borderline iff 0.55 <= score < 0.75, low quality iff
   score < 0.55. *)
C7_Bands ==
    (pc[1] = "done" /\ resp[1].ok) =>
        /\ (resp[1].message = MSG_OK) <=> (resp[1].score >= 750)
        /\ (resp[1].message = MSG_BORDERLINE)
              <=> (550 <= resp[1].score /\ resp[1].score < 750)
        /\ (resp[1].message = MSG_LOW) <=> (resp[1].score < 550)
        /\ resp[1].message \in {MSG_OK, MSG_BORDERLINE, MSG_LOW}

(* A score of exactly 0.750 is "OK". *)
C7_Witness ==
    /\ pc[1] = "done"
    /\ resp[1].ok
    /\ resp[1].score = 750
    /\ resp[1].message = MSG_OK

-----------------------------------------------------------------------------
(* Properties of the cooldown, under Spec, and of repeated calls, under
   SpecRepeat *)

(* Handler h enters measure in this step, with the token and the burst its
   slot holds after the step *)
Begins(h) == measure_begin(h, server_token'[h], frames'[h])

(* The slot of handler e holds a call that carried token tok and arrived
   less than 2.5 s before the time t *)
EarlierCall(e, tok, t) ==
    /\ pc[e] # "idle"
    /\ server_token[e] = tok
    /\ t - now[e] < 2

Rejected(r) == r = CooldownResponse

(* C5 as claimed: of any two calls with the same token less than 2.5 s
   apart, the later one gets the rapid-repeat response, whatever the outcome
   of the earlier one. *)
C5_AnyEarlierCall ==
    [][\A h \in Handlers :
          Begins(h) =>
              \A e \in Handlers :
                  (Truthy(server_token'[h]) /\ EarlierCall(e, server_token'[h], now'[h]))
                      => Rejected(resp'[h])]_vars

(* C5, amended: of two calls with the same non-empty token less than 2.5 s
   apart, the later one gets the rapid-repeat response (ok=false, score 0.0,
   frames_used 0, empty diagnostics) whenever the earlier one passed the
   cooldown check, whatever its burst came to. *)
C5_EarlierCallPassed ==
    [][\A h \in Handlers :
          Begins(h) =>
              \A e \in Handlers :
                  (Truthy(server_token'[h]) /\ EarlierCall(e, server_token'[h], now'[h])
                                            /\ ~Rejected(resp[e]))
                      => /\ resp'[h].ok = FALSE
                         /\ resp'[h].message = MSG_RAPID
                         /\ resp'[h].score = 0
                         /\ resp'[h].frames_used = 0
                         /\ resp'[h].diagnostics = [blur |-> << >>, clip_pct |-> << >>]
                         /\ pc'[h] = "done"]_vars

(* A call is rejected 1.25 s after a call with its token that passed the
   check and then failed to decode. *)
C5_Witness ==
    \E h \in Handlers, e \in Handlers :
        /\ h # e
        /\ server_token[h] = "tokA" /\ server_token[e] = "tokA"
        /\ pc[e] = "failed"
        /\ now[h] - now[e] = 1
        /\ pc[h] = "done" /\ Rejected(resp[h])
        /\ frames[h] = Repeat(SharpFrame, 5)

(* Five identical frames that pass the sanity filter *)
FiveIdenticalValid(burst) ==
    /\ Len(burst) = 5
    /\ \A i \in 1..5 : burst[i] = burst[1] /\ burst[i].decodes /\ Kept(burst[i])

SameResult(r1, r2) ==
    /\ r1.score = r2.score
    /\ r1.frames_used = r2.frames_used
    /\ r1.message = r2.message

(* C9 as claimed: two measure calls given the same 5 identical valid frames
   return the same score, frames_used and message. *)
C9_SameBurstSameResult ==
    \A h \in Handlers, g \in Handlers :
        (pc[h] = "done" /\ pc[g] = "done" /\ frames[h] = frames[g]
            /\ FiveIdenticalValid(frames[h]))
        => SameResult(resp[h], resp[g])

(* C9, amended: two measure calls given the same 5 identical valid frames,
   neither rejected by the cooldown, return the same score, frames_used and
   message. *)
C9_SameBurstSameScore ==
    \A h \in Handlers, g \in Handlers :
        (pc[h] = "done" /\ pc[g] = "done" /\ frames[h] = frames[g]
            /\ FiveIdenticalValid(frames[h])
            /\ ~Rejected(resp[h]) /\ ~Rejected(resp[g]))
        => SameResult(resp[h], resp[g])

(* Two calls with the same token, 2.5 s apart, both scored, on frames whose
   combined score 0.5495 is an exact tie between two thousandths. *)
C9_Witness ==
    /\ pc[1] = "done" /\ pc[2] = "done"
    /\ frames[1] = Repeat(TiedFrame, 5) /\ frames[2] = frames[1]
    /\ server_token[1] = "tokA" /\ server_token[2] = "tokA"
    /\ now[2] - now[1] = 2
    /\ resp[1].ok /\ resp[2].ok
    /\ resp[1].frames_used = 5
    /\ resp[1].score = 549

(* C10: a step changes the cooldown entry of a token t only if it is the
   entry of a measure call carrying t that passes the cooldown check, and
   such a step sets the entry to the arrival time of that call before any
   frame is read; a rejected call, a call without token or with an empty
   token, a call with another token, the frame loop and a decode error leave
   the entry as it is (absent or not); the entry is never in the future. *)
C10_CooldownEntry ==
    /\ [][\A t \in TokenStrings :
            IF \E h \in Handlers :
                  server_token'[h] = t /\ t # "" /\ ~Rejected(resp'[h]) /\ Begins(h)
            THEN /\ t \in DOMAIN RECENT_TOKENS'
                 /\ RECENT_TOKENS'[t] = clock
                 /\ \A h \in Handlers :
                       (server_token'[h] = t /\ Begins(h))
                           => /\ now'[h] = RECENT_TOKENS'[t]
                              /\ nread'[h] = 0
                              /\ blur_vals'[h] = << >>
            ELSE /\ (t \in DOMAIN RECENT_TOKENS') = (t \in DOMAIN RECENT_TOKENS)
                 /\ t \in DOMAIN RECENT_TOKENS => RECENT_TOKENS'[t] = RECENT_TOKENS[t]]_vars
    /\ []("" \notin DOMAIN RECENT_TOKENS)
    /\ [](\A t \in DOMAIN RECENT_TOKENS : RECENT_TOKENS[t] <= clock)

(* The entry of tokA is the arrival time of a call that failed to decode,
   and a later call with tokA was rejected without touching it. *)
C10_Witness ==
    \E h \in Handlers, e \in Handlers :
        /\ pc[e] = "failed" /\ server_token[e] = "tokA"
        /\ pc[h] = "done" /\ server_token[h] = "tokA" /\ Rejected(resp[h])
        /\ now[h] > now[e]
        /\ "tokA" \in DOMAIN RECENT_TOKENS
        /\ RECENT_TOKENS["tokA"] = now[e]
        /\ "tokB" \notin DOMAIN RECENT_TOKENS

-----------------------------------------------------------------------------
(* Properties of the usage counter, under SpecUsage *)

(* C8: every measure call that begins adds exactly one to the counter,
   whether it is then rejected, low-quality, scored or fails; nothing else
   changes the counter; the usage endpoint reports the counter, and what it
   reports never decreases. *)
C8_UsageCounter ==
    /\ [][/\ IF \E h \in Handlers : Begins(h)
             THEN USAGE_COUNTER' = USAGE_COUNTER + 1
             ELSE USAGE_COUNTER' = USAGE_COUNTER
          /\ usage => usage_resp' = USAGE_COUNTER
          /\ usage_resp' >= usage_resp]_vars
    /\ [](usage_resp <= USAGE_COUNTER)

(* Three calls counted and reported while one handler is still reading: one
   of them was rejected by the cooldown. *)
C8_Witness ==
    /\ USAGE_COUNTER = 3
    /\ usage_resp = 3
    /\ pc[1] = "reading" /\ nread[1] = 2
    /\ pc[2] = "done" /\ Rejected(resp[2])

=============================================================================
